---- MODULE Spec2Model ----
(***************************************************************************)
(* Model of pi_store's src/pool.rs: the ThreadPool of LMDB worker threads  *)
(* (new / start_pool / pop / push and the counters) and the per-worker     *)
(* message loop with its thread-local transaction, iterator and table      *)
(* handle.  The LMDB environment is modelled by what its interface does:   *)
(* one committed key-value table, a single-writer lock taken by            *)
(* begin_rw_txn, a private view per open write transaction, abort on drop. *)
(* Each worker's bounded(1) channel is modelled by its one-slot buffer and  *)
(* the message the worker has received and is handling.                    *)
(***************************************************************************)
EXTENDS Integers, Sequences, FiniteSets, TLC

\* ---------------------------------------------------------------- bounds
MaxCap == 2          \* largest capacity handed to start_pool
MaxKey == 2          \* keys are 1..MaxKey (byte-order of LMDB keys)
MaxVal == 1          \* values are 1..MaxVal
MaxBatch == 2        \* longest Query / Modify batch
MaxFailedPops == 3   \* pop calls on an empty handle list that are explored
MaxCallers == 2      \* threads that lock THREAD_POOL to pop and push
MaxSends == 3        \* messages sent into one worker's mailbox

\* pool.rs:50: bounded(1), the capacity of a worker's mailbox
MailboxCap == 1

\* width of usize in the modelled build (pool.rs:35-36, "total: usize, idle: usize")
UsizeBits == 16
UsizeMod == 2 ^ UsizeBits

Workers == 1..MaxCap
Keys == 1..MaxKey
NoValue == 0                       \* Option::None of TabKV.value / key absent
OptVals == {NoValue} \cup (1..MaxVal)

VARIABLES
    overflowChecks,  \* build profile: TRUE = arithmetic overflow panics (debug)
    started,         \* start_pool has run
    poisoned,        \* a panic happened while the pool's mutex was held
    senders,         \* ThreadPool.senders: Seq of worker ids (one Sender each)
    total,           \* ThreadPool.total
    idle,            \* ThreadPool.idle
    held,            \* handles checked out by callers
    popResult,       \* what pop returned if the last pool call was a pop:
                     \* 0 = None (or no pop), w = Some(sender of worker w)
    failedPops,      \* number of pops that found no handle
    alive,           \* alive[w]: worker thread w is running its loop
    db,              \* db[w]: Option<Database> is Some
    txn,             \* txn[w]: thread_local_txn (NoTxn or an open view)
    iter,            \* iter[w]: thread_local_iter
    tableExists,     \* the named table exists in the environment
    store,           \* committed content of the table
    pending,         \* pending[w]: keys written by Modify since w's last Commit/Rollback,
                     \* each with the last value written (history variable)
    last,            \* the last pool call or message handled, with the callbacks
                     \* it invoked and what it found (history variable)
    holders,         \* holders[w]: the callers that hold worker w's handle
    mbox,            \* mbox[w]: the messages buffered in worker w's channel
    cur,             \* cur[w]: the message rx.recv() returned and w is handling
    sentCount,       \* sentCount[w]: sends into w's channel that returned Ok
    handled          \* handled[w]: the messages w handled to the end, in that
                     \* order (history variable)

poolVars == <<overflowChecks, started, poisoned, senders, total, idle, held,
              popResult, failedPops>>
workerVars == <<alive, db, txn, iter, tableExists, store, pending>>
chanVars == <<mbox, cur, sentCount, handled>>
vars == <<overflowChecks, started, poisoned, senders, total, idle, held, popResult,
          failedPops, alive, db, txn, iter, tableExists, store, pending, last,
          holders, mbox, cur, sentCount, handled>>

\* ------------------------------------------------------------ store model
NoTxn == [open |-> FALSE]
OpenTxn(view) == [open |-> TRUE, view |-> view]
NoIter == [state |-> "none"]
Dangling == [state |-> "dangling"]    \* iterator whose transaction has ended
LiveIter(desc, pos) == [state |-> "live", desc |-> desc, pos |-> pos]

EmptyStore == [k \in Keys |-> NoValue]
NoPending == [k \in {} |-> NoValue]

TabKV(k, v) == [key |-> k, value |-> v]
Records == {TabKV(k, v) : k \in Keys, v \in OptVals}
KeyRecords == {TabKV(k, NoValue) : k \in Keys}

SeqsUpTo(S, n) == UNION {[1..m -> S] : m \in 0..n}
ModifyBatches == SeqsUpTo(Records, MaxBatch)
QueryBatches == SeqsUpTo(KeyRecords, MaxBatch)

\* callback / acknowledgement payloads
OkUnit == [ok |-> TRUE, val |-> <<>>]
ErrStr == [ok |-> FALSE, val |-> <<>>]
Ack == [ok |-> TRUE, val |-> <<"ack">>]
OkVal(v) == [ok |-> TRUE, val |-> v]

NoPre == [pending |-> NoPending, store |-> EmptyStore, txnOpen |-> FALSE,
          iter |-> NoIter]
Msg(kind, w, out, fault, pre) ==
    [kind |-> kind, w |-> w, out |-> out, fault |-> fault, pre |-> pre]

\* what a pool call found: the counters and the number of available handles
PoolPre == [idle |-> idle, total |-> total, avail |-> Len(senders)]

\* LMDB allows one write transaction at a time: begin_rw_txn blocks meanwhile
WriterFree(w) == \A u \in Workers \ {w} : ~txn[u].open

\* every channel is created empty (pool.rs:50)
NoMsg == [id |-> 0, kind |-> "none", keys |-> <<>>]
ChanInit ==
    /\ mbox = [w \in Workers |-> <<>>]
    /\ cur = [w \in Workers |-> NoMsg]
    /\ sentCount = [w \in Workers |-> 0]
    /\ handled = [w \in Workers |-> <<>>]

\* ------------------------------------------------------------------ pool
Init ==
    /\ overflowChecks \in BOOLEAN
    /\ started = FALSE
    /\ poisoned = FALSE
    /\ senders = <<>>
    /\ total = 0
    /\ idle = 0
    /\ held = {}
    /\ popResult = 0
    /\ failedPops = 0
    /\ alive = [w \in Workers |-> FALSE]
    /\ db = [w \in Workers |-> FALSE]
    /\ txn = [w \in Workers |-> NoTxn]
    /\ iter = [w \in Workers |-> NoIter]
    /\ tableExists = FALSE
    /\ store = EmptyStore
    /\ pending = [w \in Workers |-> NoPending]
    /\ last = Msg("none", 0, <<>>, FALSE, NoPre)
    /\ holders = [w \in Workers |-> {}]
    /\ ChanInit

\* pool.rs:47-55: start_pool spawns cap workers, each with empty thread-local state,
\* pushes their senders and sets idle = total = cap.  Callers run it once.
StartPool(cap) ==
    /\ ~started
    /\ ~poisoned
    /\ started' = TRUE
    /\ senders' = senders \o [i \in 1..cap |-> i]
    /\ idle' = cap
    /\ total' = cap
    /\ alive' = [w \in Workers |-> w <= cap]
    /\ popResult' = 0
    /\ last' = Msg("StartPool", 0, <<>>, FALSE, PoolPre)
    /\ UNCHANGED <<overflowChecks, poisoned, held, failedPops,
                   db, txn, iter, tableExists, store, pending>>

\* a pop that forgets the decrement
PopIdleKeeps(n) == n

\* pool.rs:258: self.idle -= 1 on a usize (wraps when overflow checks are off)
PopIdle(n) == (n - 1 + UsizeMod) % UsizeMod

\* pool.rs:263: self.idle += 1
PushIdle(n) == (n + 1) % UsizeMod

\* pool.rs:259: Vec::pop returns the last element, or None
PopSender(s) == IF Len(s) = 0 THEN 0 ELSE s[Len(s)]
PopRest(s) == IF Len(s) = 0 THEN s ELSE SubSeq(s, 1, Len(s) - 1)

\* pool.rs:257-260: pop.  With overflow checks the subtraction at idle = 0 panics
\* inside the caller's mutex guard (the mutex is poisoned, nothing is changed).
Pop ==
    /\ ~poisoned
    /\ Len(senders) > 0 \/ failedPops < MaxFailedPops
    /\ IF idle = 0 /\ overflowChecks
       THEN /\ poisoned' = TRUE
            /\ failedPops' = failedPops + 1
            /\ popResult' = 0
            /\ UNCHANGED <<idle, senders, held>>
       ELSE /\ idle' = PopIdle(idle)
            /\ popResult' = PopSender(senders)
            /\ senders' = PopRest(senders)
            /\ held' = IF Len(senders) = 0 THEN held ELSE held \cup {PopSender(senders)}
            /\ failedPops' = IF Len(senders) = 0 THEN failedPops + 1 ELSE failedPops
            /\ UNCHANGED poisoned
    /\ last' = Msg("Pop", 0, <<>>, FALSE, PoolPre)
    /\ UNCHANGED <<overflowChecks, started, total>>
    /\ UNCHANGED workerVars

\* pool.rs:262-265: push of a handle the caller holds
Push(w) ==
    /\ ~poisoned
    /\ w \in held
    /\ idle' = PushIdle(idle)
    /\ senders' = Append(senders, w)
    /\ held' = held \ {w}
    /\ popResult' = 0
    /\ last' = Msg("Push", w, <<>>, FALSE, PoolPre)
    /\ UNCHANGED <<overflowChecks, started, poisoned, total, failedPops>>
    /\ UNCHANGED workerVars

\* pool.rs:267-273
total_threads == total
idle_threads == idle

\* ---------------------------------------------------------------- worker
\* a message reaches worker w through a handle some caller holds
Serving(w) == w \in held /\ alive[w]

\* thread_local_txn.is_none() -> env.begin_rw_txn(): blocks while another
\* worker's write transaction is open (pool.rs:82-84, 121-122, 153-154, 181-183)
CanBegin(w) == txn[w].open \/ WriterFree(w)
CurView(w) == IF txn[w].open THEN txn[w].view ELSE store

Pre(w, full) ==
    [pending |-> IF full THEN pending[w] ELSE NoPending,
     store |-> IF full THEN store ELSE EmptyStore,
     txnOpen |-> txn[w].open,
     iter |-> iter[w]]

\* an unwrap() on None/Err panics: the thread unwinds, dropping (aborting) its
\* transaction, its iterator and its table handle; no callback is invoked
Panic(w, kind) ==
    /\ alive' = [alive EXCEPT ![w] = FALSE]
    /\ db' = [db EXCEPT ![w] = FALSE]
    /\ txn' = [txn EXCEPT ![w] = NoTxn]
    /\ iter' = [iter EXCEPT ![w] = NoIter]
    /\ pending' = [pending EXCEPT ![w] = NoPending]
    /\ last' = Msg(kind, w, <<>>, TRUE, Pre(w, FALSE))
    /\ UNCHANGED <<store, tableExists>>

\* an iterator outlives its transaction only as a dangling cursor
EndIter(it) == IF it.state = "none" THEN NoIter ELSE Dangling

\* pool.rs:60-62
NoOp(w) ==
    /\ Serving(w)
    /\ last' = Msg("NoOp", w, <<OkUnit>>, FALSE, Pre(w, FALSE))
    /\ UNCHANGED <<alive, db, txn, iter, tableExists, store, pending>>
    /\ UNCHANGED poolVars

\* pool.rs:64-77: open_db, else create_db(...).unwrap()
CreateDb(w, createFails) ==
    /\ Serving(w)
    /\ createFails => ~tableExists
    /\ IF createFails
       THEN Panic(w, "CreateDb")
       ELSE /\ db' = [db EXCEPT ![w] = TRUE]
            /\ tableExists' = TRUE
            /\ last' = Msg("CreateDb", w, <<Ack>>, FALSE, Pre(w, FALSE))
            /\ UNCHANGED <<alive, txn, iter, store, pending>>
    /\ UNCHANGED poolVars

\* pool.rs:88-107: the values pushed for the first n keys
QueryValues(view, keys, n) == [i \in 1..n |-> TabKV(keys[i].key, view[keys[i].key])]

\* pool.rs:108-117: callbacks of a Query whose bad-th lookup fails (0: none fails)
QueryOut(view, keys, bad) ==
    IF bad = 0
    THEN <<OkVal(QueryValues(view, keys, Len(keys)))>>
    ELSE <<ErrStr, OkVal(QueryValues(view, keys, bad - 1))>>

\* pool.rs:86: thread_local_txn.take() moves the transaction into a local that is
\* dropped (aborted) at the end of the handler
QueryTxnAfter(t) == NoTxn

\* pool.rs:79-118
Query(w, keys, bad, beginFails) ==
    /\ Serving(w)
    /\ CanBegin(w)
    /\ beginFails => ~txn[w].open
    /\ IF beginFails \/ (Len(keys) > 0 /\ ~db[w])
       THEN Panic(w, "Query")
       ELSE /\ txn' = [txn EXCEPT ![w] = QueryTxnAfter(OpenTxn(CurView(w)))]
            /\ iter' = [iter EXCEPT ![w] =
                           IF QueryTxnAfter(OpenTxn(CurView(w))).open
                           THEN iter[w] ELSE EndIter(iter[w])]
            /\ last' = Msg("Query", w, QueryOut(CurView(w), keys, bad), bad # 0,
                           Pre(w, FALSE))
            /\ UNCHANGED <<alive, db, tableExists, store, pending>>
    /\ UNCHANGED poolVars

\* pool.rs:125-133: where the new iterator starts (key 0: no start key)
IterPos(desc, key) ==
    IF key = 0 THEN (IF desc THEN MaxKey + 1 ELSE 0)
    ELSE (IF desc THEN key + 1 ELSE key - 1)

\* a create that never looks at the worker's state
CreatesIterAlways(w) == TRUE

\* pool.rs:121, 153: the iterator is created only when no transaction is open
CreatesIter(w) == ~txn[w].open

\* pool.rs:120-136 and 152-167 (the two handlers have the same body)
CreateIter(w, kind, desc, key, fails) ==
    /\ Serving(w)
    /\ IF CreatesIter(w)
       THEN /\ WriterFree(w)
            /\ IF fails \/ ~db[w]
               THEN Panic(w, kind)
               ELSE /\ txn' = [txn EXCEPT ![w] = OpenTxn(CurView(w))]
                    /\ iter' = [iter EXCEPT ![w] = LiveIter(desc, IterPos(desc, key))]
                    /\ last' = Msg(kind, w, <<Ack>>, FALSE, Pre(w, FALSE))
                    /\ UNCHANGED <<alive, db, tableExists, store, pending>>
       ELSE /\ ~fails
            /\ last' = Msg(kind, w, <<Ack>>, FALSE, Pre(w, FALSE))
            /\ UNCHANGED <<alive, db, txn, iter, tableExists, store, pending>>
    /\ UNCHANGED poolVars

CreateItemIter(w, desc, key, fails) == CreateIter(w, "CreateItemIter", desc, key, fails)
CreateKeyIter(w, desc, key, fails) == CreateIter(w, "CreateKeyIter", desc, key, fails)

\* the keys a cursor at position it.pos still has ahead of it
Ahead(view, it) ==
    {k \in Keys : view[k] # NoValue /\ (IF it.desc THEN k < it.pos ELSE k > it.pos)}
NextOf(view, it) ==
    IF it.desc
    THEN CHOOSE k \in Ahead(view, it) : \A j \in Ahead(view, it) : j <= k
    ELSE CHOOSE k \in Ahead(view, it) : \A j \in Ahead(view, it) : j >= k

\* what the callback of NextItem (item = TRUE) or NextKey carries for entry k
Entry(item, k, v) == IF item THEN OkVal(<<k, v>>) ELSE OkVal(<<k>>)
EndOfSeq == OkVal(<<>>)
DanglingResults(item) ==
    {EndOfSeq} \cup {Entry(item, k, v) : k \in Keys, v \in 1..MaxVal}

\* a missing iterator reported as the end of the sequence
IterNotInitializedAsEnd == EndOfSeq

\* pool.rs:147-149, 175-177: cb(Err("Iterator not initialized"))
IterNotInitialized == ErrStr

\* pool.rs:138-150 and 169-178.  Advancing a cursor whose transaction has ended is
\* a use of freed memory in the store: any entry, end-of-sequence, or a crash.
Next_(w, kind, item, r) ==
    /\ Serving(w)
    /\ CASE iter[w].state = "none" ->
              /\ r = IterNotInitialized
              /\ last' = Msg(kind, w, <<IterNotInitialized>>, FALSE, Pre(w, FALSE))
              /\ UNCHANGED <<alive, db, txn, iter, tableExists, store, pending>>
         [] iter[w].state = "live" ->
              /\ r = IF Ahead(txn[w].view, iter[w]) = {} THEN EndOfSeq
                     ELSE Entry(item, NextOf(txn[w].view, iter[w]),
                                txn[w].view[NextOf(txn[w].view, iter[w])])
              /\ iter' = [iter EXCEPT ![w] =
                            IF Ahead(txn[w].view, iter[w]) = {} THEN iter[w]
                            ELSE LiveIter(iter[w].desc, NextOf(txn[w].view, iter[w]))]
              /\ last' = Msg(kind, w, <<r>>, FALSE, Pre(w, FALSE))
              /\ UNCHANGED <<alive, db, txn, tableExists, store, pending>>
         [] iter[w].state = "dangling" ->
              \/ /\ r \in DanglingResults(item)
                 /\ last' = Msg(kind, w, <<r>>, FALSE, Pre(w, FALSE))
                 /\ UNCHANGED <<alive, db, txn, iter, tableExists, store, pending>>
              \/ /\ r = ErrStr
                 /\ Panic(w, kind)
    /\ UNCHANGED poolVars

NextItem(w, r) == Next_(w, "NextItem", TRUE, r)
NextKey(w, r) == Next_(w, "NextKey", FALSE, r)

\* pool.rs:187-211: the view after the batch; the records in bad fail with a store
\* error other than NotFound and leave the view as it was
RECURSIVE ApplyWrites(_, _, _, _)
ApplyWrites(view, recs, bad, i) ==
    IF i > Len(recs) THEN view
    ELSE ApplyWrites(IF i \in bad THEN view
                     ELSE [view EXCEPT ![recs[i].key] = recs[i].value],
                     recs, bad, i + 1)

RECURSIVE NotePending(_, _, _, _)
NotePending(p, recs, bad, i) ==
    IF i > Len(recs) THEN p
    ELSE NotePending(IF i \in bad THEN p
                     ELSE [k \in DOMAIN p \cup {recs[i].key} |->
                              IF k = recs[i].key THEN recs[i].value ELSE p[k]],
                     recs, bad, i + 1)

\* pool.rs:196-212: one error callback per failing record, then cb(Ok(()))
ModifyOut(recs, bad) == [i \in 1..Cardinality(bad) |-> ErrStr] \o <<OkUnit>>

\* pool.rs:180-213
Modify(w, recs, bad, beginFails) ==
    /\ Serving(w)
    /\ CanBegin(w)
    /\ beginFails => ~txn[w].open
    /\ IF beginFails \/ (Len(recs) > 0 /\ ~db[w])
       THEN Panic(w, "Modify")
       ELSE /\ txn' = [txn EXCEPT ![w] = OpenTxn(ApplyWrites(CurView(w), recs, bad, 1))]
            /\ pending' = [pending EXCEPT ![w] = NotePending(pending[w], recs, bad, 1)]
            /\ last' = Msg("Modify", w, ModifyOut(recs, bad), bad # {}, Pre(w, FALSE))
            /\ UNCHANGED <<alive, db, iter, tableExists, store>>
    /\ UNCHANGED poolVars

\* pool.rs:217-218: txn.commit() publishes the transaction's view
CommitStore(st, view) == view

\* a rollback that publishes instead of discarding
RollbackStorePublishes(st, view) == view

\* pool.rs:233: txn.abort() discards the transaction's view
RollbackStore(st, view) == st

\* a commit that reports an error when there is nothing to commit
CommitOutNeedsTxn(open, commitFails) ==
    IF open /\ ~commitFails THEN <<OkUnit>> ELSE <<ErrStr>>

\* pool.rs:216-228: the one callback of Commit
CommitOut(open, commitFails) ==
    IF open THEN (IF commitFails THEN <<ErrStr>> ELSE <<OkUnit>>) ELSE <<OkUnit>>

\* pool.rs:215-229
Commit(w, commitFails) ==
    /\ Serving(w)
    /\ commitFails => txn[w].open
    /\ store' = IF txn[w].open /\ ~commitFails
                THEN CommitStore(store, txn[w].view) ELSE store
    /\ txn' = [txn EXCEPT ![w] = NoTxn]
    /\ iter' = [iter EXCEPT ![w] = IF txn[w].open THEN EndIter(iter[w]) ELSE iter[w]]
    /\ pending' = [pending EXCEPT ![w] = NoPending]
    /\ last' = Msg("Commit", w, CommitOut(txn[w].open, commitFails),
                   commitFails, Pre(w, TRUE))
    /\ UNCHANGED <<alive, db, tableExists>>
    /\ UNCHANGED poolVars

\* pool.rs:231-238
Rollback(w) ==
    /\ Serving(w)
    /\ store' = IF txn[w].open THEN RollbackStore(store, txn[w].view) ELSE store
    /\ txn' = [txn EXCEPT ![w] = NoTxn]
    /\ iter' = [iter EXCEPT ![w] = IF txn[w].open THEN EndIter(iter[w]) ELSE iter[w]]
    /\ pending' = [pending EXCEPT ![w] = NoPending]
    /\ last' = Msg("Rollback", w, <<OkUnit>>, FALSE, Pre(w, TRUE))
    /\ UNCHANGED <<alive, db, tableExists>>
    /\ UNCHANGED poolVars

\* pool.rs:240-243: env.stat() entry count, or its error
Entries(st) == Cardinality({k \in Keys : st[k] # NoValue})
TableSize(w, statFails) ==
    /\ Serving(w)
    /\ last' = Msg("TableSize", w,
                   IF statFails THEN <<ErrStr>> ELSE <<OkVal(<<Entries(store)>>)>>,
                   statFails, Pre(w, FALSE))
    /\ UNCHANGED <<alive, db, txn, iter, tableExists, store, pending>>
    /\ UNCHANGED poolVars

\* ------------------------------------------------------------ specification
\* a caller locks THREAD_POOL, pops, and keeps what it got (pool.rs:257-260, 277)
Acquire(c) ==
    /\ Pop
    /\ holders' = IF (idle = 0 /\ overflowChecks) \/ Len(senders) = 0 THEN holders
                  ELSE [holders EXCEPT ![PopSender(senders)] = @ \cup {c}]
    /\ UNCHANGED chanVars

\* a caller locks THREAD_POOL and pushes a handle it holds (pool.rs:262-265, 277)
Release(c, w) ==
    /\ c \in holders[w]
    /\ Push(w)
    /\ holders' = [holders EXCEPT ![w] = @ \ {c}]
    /\ UNCHANGED chanVars

Callers == 1..MaxCallers
Quiet == UNCHANGED <<holders, mbox, cur, sentCount, handled>>

StartPoolStep == \E cap \in 1..MaxCap : StartPool(cap) /\ Quiet
PopStep == \E c \in Callers : Acquire(c)
PushStep == \E c \in Callers, w \in Workers : Release(c, w)
NoOpStep == \E w \in Workers : NoOp(w) /\ Quiet
CreateDbStep == \E w \in Workers, f \in BOOLEAN : CreateDb(w, f) /\ Quiet
QueryStep ==
    \E w \in Workers, keys \in QueryBatches, f \in BOOLEAN :
        \E bad \in 0..Len(keys) : Query(w, keys, bad, f) /\ Quiet
CreateItemIterStep ==
    \E w \in Workers, desc \in BOOLEAN, key \in 0..MaxKey, f \in BOOLEAN :
        CreateItemIter(w, desc, key, f) /\ Quiet
CreateKeyIterStep ==
    \E w \in Workers, desc \in BOOLEAN, key \in 0..MaxKey, f \in BOOLEAN :
        CreateKeyIter(w, desc, key, f) /\ Quiet
NextItemStep ==
    \E w \in Workers, r \in DanglingResults(TRUE) \cup {ErrStr} : NextItem(w, r) /\ Quiet
NextKeyStep ==
    \E w \in Workers, r \in DanglingResults(FALSE) \cup {ErrStr} : NextKey(w, r) /\ Quiet
ModifyStep ==
    \E w \in Workers, recs \in ModifyBatches, f \in BOOLEAN :
        \E bad \in SUBSET (1..Len(recs)) : Modify(w, recs, bad, f) /\ Quiet
CommitStep == \E w \in Workers, f \in BOOLEAN : Commit(w, f) /\ Quiet
RollbackStep == \E w \in Workers : Rollback(w) /\ Quiet
TableSizeStep == \E w \in Workers, f \in BOOLEAN : TableSize(w, f) /\ Quiet

\* the state after new(), start_pool(MaxCap) and n pops (Vec::pop hands out the
\* last sender first), before any message was sent
AfterPops(n) ==
    /\ overflowChecks \in BOOLEAN
    /\ started = TRUE
    /\ poisoned = FALSE
    /\ senders = [i \in 1..(MaxCap - n) |-> i]
    /\ total = MaxCap
    /\ idle = MaxCap - n
    /\ held = (MaxCap - n + 1)..MaxCap
    /\ popResult = MaxCap - n + 1
    /\ failedPops = 0
    /\ alive = [w \in Workers |-> TRUE]
    /\ db = [w \in Workers |-> FALSE]
    /\ txn = [w \in Workers |-> NoTxn]
    /\ iter = [w \in Workers |-> NoIter]
    /\ tableExists = FALSE
    /\ store = EmptyStore
    /\ pending = [w \in Workers |-> NoPending]
    /\ last = Msg("Pop", 0, <<>>, FALSE,
                  [idle |-> MaxCap - n + 1, total |-> MaxCap, avail |-> MaxCap - n + 1])
    /\ holders = [w \in Workers |-> IF w > MaxCap - n THEN {1} ELSE {}]
    /\ ChanInit

\* Spec: transactions of all workers of a pool whose handles are all checked out
TxInit == AfterPops(MaxCap) /\ overflowChecks = FALSE
TxNext ==
    \/ CreateDbStep
    \/ QueryStep
    \/ ModifyStep
    \/ CommitStep
    \/ RollbackStep
Spec == TxInit /\ [][TxNext]_vars

\* WorkerSpec: one worker's loop with all eleven message kinds
WorkerInit == AfterPops(1) /\ overflowChecks = FALSE
WorkerNext ==
    \/ NoOpStep
    \/ CreateDbStep
    \/ QueryStep
    \/ CreateItemIterStep
    \/ NextItemStep
    \/ CreateKeyIterStep
    \/ NextKeyStep
    \/ ModifyStep
    \/ CommitStep
    \/ RollbackStep
    \/ TableSizeStep
WorkerSpec == WorkerInit /\ [][WorkerNext]_vars

\* PoolSpec: the pool manager from new() on
PoolNext ==
    \/ StartPoolStep
    \/ PopStep
    \/ PushStep
PoolSpec == Init /\ [][PoolNext]_vars

\* SysSpec: callers acquire handles that are there, run transactions against a
\* store that reports no error, and release
TakeStep == Len(senders) > 0 /\ Acquire(1)
CreateDbOk == \E w \in Workers : CreateDb(w, FALSE) /\ Quiet
QueryOk == \E w \in Workers, keys \in QueryBatches : Query(w, keys, 0, FALSE) /\ Quiet
ModifyOk == \E w \in Workers, recs \in ModifyBatches : Modify(w, recs, {}, FALSE) /\ Quiet
CommitOk == \E w \in Workers : Commit(w, FALSE) /\ Quiet
SysNext ==
    \/ StartPoolStep
    \/ TakeStep
    \/ PushStep
    \/ CreateDbOk
    \/ QueryOk
    \/ ModifyOk
    \/ CommitOk
    \/ RollbackStep
SysSpec == Init /\ [][SysNext]_vars

\* ChanSpec: a caller holding one worker's handle sends NoOp, CreateDb and Query
\* messages into its channel; the worker receives and handles them
NewMsg(w, kind, keys) == [id |-> sentCount[w] + 1, kind |-> kind, keys |-> keys]

\* a channel that accepts every send
CanSendAlways(w) == TRUE

\* pool.rs:50: a send into the bounded(1) channel blocks while its buffer is full
CanSend(w) == Len(mbox[w]) < MailboxCap

\* Sender::send on a handle the caller holds; it returns Err, and the message is
\* not accepted, once the worker thread (the receiver) is gone
Send(w, kind, keys) ==
    /\ w \in held
    /\ alive[w]
    /\ sentCount[w] < MaxSends
    /\ CanSend(w)
    /\ mbox' = [mbox EXCEPT ![w] = Append(@, NewMsg(w, kind, keys))]
    /\ sentCount' = [sentCount EXCEPT ![w] = @ + 1]
    /\ UNCHANGED <<cur, handled, holders, last>>
    /\ UNCHANGED poolVars
    /\ UNCHANGED workerVars

\* pool.rs:58-59: the loop takes the oldest buffered message
Recv(w) ==
    /\ alive[w]
    /\ cur[w] = NoMsg
    /\ mbox[w] # <<>>
    /\ cur' = [cur EXCEPT ![w] = Head(mbox[w])]
    /\ mbox' = [mbox EXCEPT ![w] = Tail(@)]
    /\ UNCHANGED <<sentCount, handled, holders, last>>
    /\ UNCHANGED poolVars
    /\ UNCHANGED workerVars

\* pool.rs:58-59: the match arm has run; the loop goes back to rx.recv(), unless
\* the arm panicked, which drops the message with the thread
Finish(w) ==
    /\ cur' = [cur EXCEPT ![w] = NoMsg]
    /\ handled' = [handled EXCEPT ![w] = IF alive'[w] THEN Append(@, cur[w].id) ELSE @]
    /\ UNCHANGED <<mbox, sentCount, holders>>

HandleNoOp(w) == cur[w].kind = "NoOp" /\ NoOp(w) /\ Finish(w)
HandleCreateDb(w, f) == cur[w].kind = "CreateDb" /\ CreateDb(w, f) /\ Finish(w)
HandleQuery(w, bad, f) ==
    /\ cur[w].kind = "Query"
    /\ bad <= Len(cur[w].keys)
    /\ Query(w, cur[w].keys, bad, f)
    /\ Finish(w)

SentBatches == SeqsUpTo(KeyRecords, 1)
SendStep ==
    \E w \in Workers :
        \/ Send(w, "NoOp", <<>>)
        \/ Send(w, "CreateDb", <<>>)
        \/ \E keys \in SentBatches : Send(w, "Query", keys)
RecvStep == \E w \in Workers : Recv(w)
HandleNoOpStep == \E w \in Workers : HandleNoOp(w)
HandleCreateDbStep == \E w \in Workers, f \in BOOLEAN : HandleCreateDb(w, f)
HandleQueryStep == \E w \in Workers, bad \in 0..1, f \in BOOLEAN : HandleQuery(w, bad, f)
ChanNext ==
    \/ SendStep
    \/ RecvStep
    \/ HandleNoOpStep
    \/ HandleCreateDbStep
    \/ HandleQueryStep
ChanSpec == WorkerInit /\ [][ChanNext]_vars

TypeOK ==
    /\ idle \in 0..(UsizeMod - 1)
    /\ total \in 0..MaxCap
    /\ held \subseteq Workers
    /\ \A w \in Workers : iter[w].state = "live" => txn[w].open

\* ------------------------------------------------------------------ claims
\* the values a successful Query result carries, as <<key, value>> entries
Answered == IF Len(last.out) = 1 /\ last.out[1].ok THEN last.out[1].val ELSE <<>>
Oks == {i \in 1..Len(last.out) : last.out[i].ok}
Errs == {i \in 1..Len(last.out) : ~last.out[i].ok}

\* C1: after a Commit that reported success, every write applied by Modify on
\* that worker since its previous Commit/Rollback is in the committed store, which
\* is what every transaction opened afterwards reads.
C1_CommitPublishesWrites ==
    (last.kind = "Commit" /\ last.out = <<OkUnit>>)
        => \A k \in DOMAIN last.pre.pending : store[k] = last.pre.pending[k]

\* C2: after a Rollback the committed store is what it was before, the worker's
\* transaction slot is empty, and so the view of a transaction opened next on any
\* worker holds none of the rolled-back writes.
C2_RollbackDiscardsWrites ==
    last.kind = "Rollback"
        => /\ store = last.pre.store
           /\ ~txn[last.w].open
           /\ \A u \in Workers : ~txn[u].open => CurView(u) = last.pre.store

\* C2 witness: a Rollback acted on an open transaction holding a write that
\* differs from the committed value, while another worker is running.
C2_Witness ==
    /\ last.kind = "Rollback"
    /\ last.pre.txnOpen
    /\ \E k \in DOMAIN last.pre.pending : last.pre.pending[k] # store[k]
    /\ \E u \in Workers \ {last.w} : alive[u] /\ db[u]

\* C3: a Query answers every key this worker wrote since its last
\* Commit/Rollback with the value written last (no value after a delete).
C3_ReadYourOwnWrites ==
    last.kind = "Query"
        => \A i \in 1..Len(Answered) :
              Answered[i].key \in DOMAIN pending[last.w]
                  => Answered[i].value = pending[last.w][Answered[i].key]

\* C4: an acknowledged CreateItemIter on a worker whose open transaction holds
\* uncommitted writes leaves an active iterator over that transaction (so that
\* NextItem yields the written entry, not an error).
C4_IterOverUncommittedWrites ==
    (/\ last.kind = "CreateItemIter"
     /\ last.out = <<Ack>>
     /\ last.pre.txnOpen
     /\ txn[last.w].open
     /\ \E k \in DOMAIN pending[last.w] :
           pending[last.w][k] # NoValue /\ txn[last.w].view[k] = pending[last.w][k])
        => iter[last.w].state = "live"

\* C5: in a pool of capacity >= 2, once committed data exists and the other
\* handles are back in the pool, a Query on the worker just acquired (no
\* transaction inherited) delivers exactly one success result carrying the
\* committed value of every requested key (no value for an unwritten key).
C5_AnyWorkerServesCommitted ==
    (/\ last.kind = "Query"
     /\ total >= 2
     /\ popResult = last.w
     /\ held = {last.w}
     /\ ~last.pre.txnOpen
     /\ \E k \in Keys : store[k] # NoValue)
        => /\ Len(last.out) = 1
           /\ last.out[1].ok
           /\ \A i \in 1..Len(last.out[1].val) :
                 last.out[1].val[i].value = store[last.out[1].val[i].key]

\* C6: a Query the worker survived invokes its callback exactly once: with an
\* error if a lookup failed with a store error, else with the result list.
C6_QueryCallbackOnce ==
    (last.kind = "Query" /\ alive[last.w])
        => /\ Len(last.out) = 1
           /\ last.out[1].ok = ~last.fault

\* C7: a Modify batch gets the overall success exactly once if and only if no
\* error callback fired for it, and never when a put/delete failed.
C7_ModifySuccessIffNoError ==
    (last.kind = "Modify" /\ alive[last.w])
        => /\ (Cardinality(Oks) = 1) <=> (Errs = {})
           /\ last.fault => Oks = {}

\* C8: a pop that finds no handle returns None without panicking and leaves
\* idle and total as they were.
C8_EmptyPopLeavesCounters ==
    (last.kind = "Pop" /\ last.pre.avail = 0)
        => /\ ~poisoned
           /\ popResult = 0
           /\ idle = last.pre.idle
           /\ total = last.pre.total

\* C9: for a pool started once whose pops all found a handle, idle is the
\* capacity minus the handles checked out, total is the capacity (the number of
\* workers spawned), the handle list holds idle handles, and with every handle
\* released idle = total = capacity again.
C9_AcquireReleaseAccounting ==
    (started /\ failedPops = 0)
        => /\ total = Cardinality({w \in Workers : alive[w]})
           /\ idle = total - Cardinality(held)
           /\ Len(senders) = idle
           /\ (held = {} => idle = total /\ Len(senders) = total)

\* C9 witness: every handle of a pool of capacity MaxCap was acquired and all
\* were released in another order than that of start_pool.
C9_Witness ==
    /\ started
    /\ failedPops = 0
    /\ held = {}
    /\ last.kind = "Push"
    /\ total = MaxCap
    /\ senders[1] # 1

\* C10: idle <= total in every reachable state of the pool.
C10_IdleAtMostTotal == idle <= total

IterKinds == {"CreateItemIter", "CreateKeyIter"}
NextKinds == {"NextItem", "NextKey"}

\* C11: a CreateItemIter / CreateKeyIter handled by a worker whose iterator is
\* live (created and not outlived by its transaction, as it is right after the
\* create that made it) is acknowledged once and leaves the iterator, with its
\* direction and position, as it was.
C11_SecondCreateKeepsIter ==
    (last.kind \in IterKinds /\ last.pre.iter.state = "live")
        => /\ last.out = <<Ack>>
           /\ iter[last.w] = last.pre.iter
           /\ alive[last.w]
C11_Witness ==
    /\ last.kind \in IterKinds
    /\ last.pre.iter.state = "live"
    /\ last.pre.iter.pos = IterPos(last.pre.iter.desc, 0)
    /\ last.out = <<Ack>>

\* C12: a Commit or a Rollback handled by a worker with no open transaction
\* invokes the callback exactly once, with success, leaves the slot empty and the
\* stored data as it was; the worker goes on.
C12_EndWithoutTxnIsNoOp ==
    (last.kind \in {"Commit", "Rollback"} /\ ~last.pre.txnOpen)
        => /\ last.out = <<OkUnit>>
           /\ ~txn[last.w].open
           /\ store = last.pre.store
           /\ alive[last.w]
C12_Witness ==
    /\ last.kind \in {"Commit", "Rollback"}
    /\ ~last.pre.txnOpen
    /\ \E k \in Keys : store[k] # NoValue

\* C13: a NextItem / NextKey handled by a worker for which no iterator was ever
\* created delivers exactly one result, an error (neither an entry nor the end of
\* the sequence), changes nothing in the worker and leaves it serving.
C13_NextWithoutIterIsError ==
    (last.kind \in NextKinds /\ last.pre.iter.state = "none")
        => /\ last.out = <<ErrStr>>
           /\ iter[last.w] = NoIter
           /\ txn[last.w].open = last.pre.txnOpen
           /\ alive[last.w]
           /\ Serving(last.w)
C13_Witness ==
    /\ last.kind \in NextKinds
    /\ last.pre.iter.state = "none"
    /\ last.pre.txnOpen
    /\ db[last.w]

MsgKinds ==
    {"CreateDb", "Query", "NextItem", "NextKey", "CreateItemIter", "CreateKeyIter",
     "Modify", "Commit", "Rollback", "TableSize", "NoOp"}

\* C14: whatever message a worker handles, of any of the eleven kinds, in any
\* order and with any store outcome, the worker thread is still running its loop
\* afterwards and the message was answered.
C14_WorkerNeverPanics ==
    last.kind \in MsgKinds => alive[last.w] /\ Len(last.out) >= 1

\* C16: after a worker has handled a Query or a Modify its transaction slot holds
\* an open transaction (the one it held before, or the one the handler opened);
\* only Commit and Rollback empty the slot.
C16_TxnPersistsAcrossQuery ==
    (last.kind \in {"Query", "Modify"} /\ alive[last.w]) => txn[last.w].open

\* C17: a CreateItemIter / CreateKeyIter is acknowledged exactly once; it creates
\* and positions an iterator exactly when the worker had none, whether or not a
\* transaction was open, and leaves an iterator the worker already had as it was,
\* also one that a Commit, Rollback or Query came after.
C17_CreateIffNoIterator ==
    (last.kind \in IterKinds /\ alive[last.w])
        => /\ last.out = <<Ack>>
           /\ last.pre.iter.state = "none" => iter[last.w].state = "live"
           /\ last.pre.iter.state # "none" => iter[last.w] = last.pre.iter

\* C18: in every state, a worker that has an iterator still has the open
\* transaction the iterator was created in, and no NextItem / NextKey was handled
\* on an iterator whose transaction had ended.
C18_IterWithinItsTxn ==
    /\ \A w \in Workers : iter[w].state # "none" => iter[w].state = "live" /\ txn[w].open
    /\ last.kind \in NextKinds => last.pre.iter.state # "dangling"

\* the requests worker w's channel accepted that w has not finished
InFlight(w) == Len(mbox[w]) + (IF cur[w] = NoMsg THEN 0 ELSE 1)
Pending(w) == (IF cur[w] = NoMsg THEN <<>> ELSE <<cur[w].id>>) \o [i \in 1..Len(mbox[w]) |-> mbox[w][i].id]

\* C15: the messages a worker has handled to the end are the first ones sent to
\* it, in send order; the one it is handling and the buffered one are the next
\* ones, in send order; every message a send accepted is among these (none is
\* lost) and the worker is there to handle those not yet handled.
C15_InOrderNoLoss ==
    \A w \in Workers :
        /\ handled[w] \o Pending(w) = [i \in 1..sentCount[w] |-> i]
        /\ InFlight(w) > 0 => alive[w]

\* C19 (as stated): per worker at most one request has been accepted by a send
\* and is not finished, counting the buffered and the executing one.
C19_OneInFlight == \A w \in Workers : InFlight(w) <= 1

\* C19 (amended): per worker at most MailboxCap = 1 message is buffered, so a send
\* is accepted only after the worker has received the previous message; with the
\* one the worker is executing, at most two accepted requests are unfinished.
C19_OneBufferedOneExecuting ==
    \A w \in Workers :
        /\ Len(mbox[w]) <= MailboxCap
        /\ InFlight(w) <= MailboxCap + 1
C19_Witness ==
    \E w \in Workers : cur[w] # NoMsg /\ Len(mbox[w]) = 1 /\ alive[w]

Available == {senders[i] : i \in 1..Len(senders)}

\* C20: with callers popping and pushing under the mutex, each pushing only
\* handles it holds, no handle is held by two callers, a handle in the available
\* list is held by no caller (so a pop returns one that is not checked out), and
\* idle is the number of handles in the available list, in every state.
C20_ExclusiveAssignment ==
    /\ \A w \in Workers : Cardinality(holders[w]) <= 1
    /\ \A w \in Available : holders[w] = {}
    /\ popResult # 0 => holders[popResult] # {} /\ popResult \notin Available
    /\ idle = Len(senders)
====
